---- MODULE Spec2Model ----
(***************************************************************************)
(* Model of convex_hull.py: Andrew's monotone chain on 2D points.          *)
(*                                                                         *)
(* Points are pairs <<x, y>> of integers of a small grid; float(x) is      *)
(* exact on them, so every cross product and area the code computes is an  *)
(* integer.  The tolerance eps is a float that need not be an integer (the *)
(* default is 1e-12), so the model carries eps2, twice the tolerance, and  *)
(* compares 2*turn with eps2: eps2 = 0 is eps = 0, eps2 = 1 stands for the *)
(* default 1e-12 (a tolerance strictly between 0 and the smallest nonzero  *)
(* integer cross product), eps2 = 2*k is eps = k.                          *)
(*                                                                         *)
(* Two specifications, started on the same kind of call:                   *)
(*   Spec      one call of convex_hull is one step (Call);                 *)
(*   ScanSpec  the same call statement by statement: every append and      *)
(*             every pop of the two scans is a step.                       *)
(***************************************************************************)
EXTENDS Integers, Sequences, FiniteSets, TLC

\* ---- bounds of the model ----
MaxCoord == 2          \* coordinates range over 0..MaxCoord
MaxPoints == 5         \* distinct points of an input (Spec)
MaxScanPoints == 4     \* distinct points of an input (ScanSpec)
MaxEps == 1            \* largest integer tolerance tried

\* eps=1e-12 of the signature, in the half units of eps2 (see above)
DefaultEps2 == 1

Grid == (0 .. MaxCoord) \X (0 .. MaxCoord)
EpsValues == {0, DefaultEps2} \cup {2 * k : k \in 1 .. MaxEps}

VARIABLES
    points,             \* the argument: a sequence of points, duplicates allowed
    include_collinear,  \* the keyword argument
    eps2,               \* twice the keyword argument eps
    pc,                 \* "start", "lower", "upper", "done"
    uniq,               \* sorted(set(points))
    i,                  \* number of points the running for loop has appended
    lower, upper,       \* the two chains
    popped,             \* the points the running scan has popped, in order
    hull,               \* lower[:-1] + upper[:-1]
    result,             \* the returned list
    branch              \* which return statement was taken

vars == <<points, include_collinear, eps2, pc, uniq, i, lower, upper, popped,
          hull, result, branch>>

\* ---- helpers on sequences ----
Abs(v) == IF v < 0 THEN -v ELSE v
Last(s) == s[Len(s)]
Front(s) == SubSeq(s, 1, Len(s) - 1)
Reverse(s) == [k \in 1 .. Len(s) |-> s[Len(s) + 1 - k]]
Range(s) == {s[k] : k \in DOMAIN s}

\* tuple comparison of Python: by x, then by y
Less(p, q) == p[1] < q[1] \/ (p[1] = q[1] /\ p[2] < q[2])

\* sorted(S): the k-th element is the one with k-1 smaller elements
Sorted(S) ==
    [k \in 1 .. Cardinality(S) |->
        CHOOSE p \in S : Cardinality({q \in S : Less(q, p)}) = k - 1]

\* line 104: uniq = sorted(set((float(x), float(y)) for (x, y) in points))
Uniq(pts) == Sorted(Range(pts))

\* Cross with its two products exchanged: the sign of every turn flips
CrossSwapped(o, a, b) ==
    (a[2] - o[2]) * (b[1] - o[1]) - (a[1] - o[1]) * (b[2] - o[2])

\* _cross(o, a, b)
Cross(o, a, b) == (a[1] - o[1]) * (b[2] - o[2]) - (a[2] - o[2]) * (b[1] - o[1])

\* _polygon_area2(poly): the shoelace sum, 0 below three points
RECURSIVE Shoelace(_, _)
Shoelace(poly, k) ==
    IF k > Len(poly) THEN 0
    ELSE LET a == poly[k]
             b == poly[(k % Len(poly)) + 1]
         IN (a[1] * b[2] - a[2] * b[1]) + Shoelace(poly, k + 1)

PolygonArea2(poly) == IF Len(poly) < 3 THEN 0 ELSE Shoelace(poly, 1)

\* PopsOn without the mode: collinear points are popped in both modes
PopsOnCornersOnly(turn, ic, e2) == 2 * turn <= e2

\* the test of the inner while loop on a computed turn: pop or break
PopsOn(turn, ic, e2) ==
    IF ic THEN 2 * turn < -e2
    ELSE 2 * turn <= e2

\* ShouldPop measuring the turn from the bottom of the chain and asking for one
\* point only: the first point of a chain can be popped
ShouldPopFromBottom(chain, p, ic, e2) ==
    /\ Len(chain) >= 1
    /\ PopsOn(Cross(chain[1], chain[Len(chain)], p), ic, e2)

\* the condition under which the while loop pops the top of chain for p
ShouldPop(chain, p, ic, e2) ==
    /\ Len(chain) >= 2
    /\ PopsOn(Cross(chain[Len(chain) - 1], chain[Len(chain)], p), ic, e2)

\* PopWhile with an if for the while: at most one pop per point
PopOnce(chain, p, ic, e2) ==
    IF Len(chain) >= 2
       /\ PopsOn(Cross(chain[Len(chain) - 1], chain[Len(chain)], p), ic, e2)
    THEN Front(chain)
    ELSE chain

\* the inner while loop run to its break
RECURSIVE PopWhile(_, _, _, _)
PopWhile(chain, p, ic, e2) ==
    IF ShouldPop(chain, p, ic, e2) THEN PopWhile(Front(chain), p, ic, e2)
    ELSE chain

\* BuildChain with the for loop one point short: the last point of seq is
\* never scanned
RECURSIVE BuildChainShort(_, _, _, _, _)
BuildChainShort(chain, seq, k, ic, e2) ==
    IF k >= Len(seq) THEN chain
    ELSE BuildChainShort(Append(PopWhile(chain, seq[k], ic, e2), seq[k]), seq, k + 1,
                         ic, e2)

\* one scan: the for loop over seq from its k-th point on, started on chain
RECURSIVE BuildChain(_, _, _, _, _)
BuildChain(chain, seq, k, ic, e2) ==
    IF k > Len(seq) THEN chain
    ELSE BuildChain(Append(PopWhile(chain, seq[k], ic, e2), seq[k]), seq, k + 1, ic, e2)

\* Stitch dropping the first point of each chain instead of the last
StitchDropFirst(lo, up) == Tail(lo) \o Tail(up)

\* line 152: hull = lower[:-1] + upper[:-1]
Stitch(lo, up) == Front(lo) \o Front(up)

\* line 157: abs(_polygon_area2(hull)) <= eps
AreaWithinEps(h, e2) == 2 * Abs(PolygonArea2(h)) <= e2

\* Outcome without the all-collinear correction of lines 157-158
OutcomeNoCorrection(u, h, ic, e2) ==
    IF Len(h) = 0 THEN
        [branch |-> "fallback",
         result |-> IF ic THEN u
                    ELSE IF u[1] # Last(u) THEN <<u[1], Last(u)>> ELSE <<u[1]>>]
    ELSE [branch |-> "hull", result |-> h]

\* lines 154-167: the return statement taken and the list returned
Outcome(u, h, ic, e2) ==
    IF ic /\ AreaWithinEps(h, e2) THEN [branch |-> "collinear", result |-> u]
    ELSE IF Len(h) = 0 THEN
        [branch |-> "fallback",
         result |-> IF ic THEN u
                    ELSE IF u[1] # Last(u) THEN <<u[1], Last(u)>> ELSE <<u[1]>>]
    ELSE [branch |-> "hull", result |-> h]

\* convex_hull(points, include_collinear=ic, eps=e2/2): every local it sets
ConvexHull(pts, ic, e2) ==
    LET u == Uniq(pts)
    IN IF Len(u) <= 1
       THEN [uniq |-> u, lower |-> <<>>, upper |-> <<>>, hull |-> <<>>,
             branch |-> "trivial", result |-> u]
       ELSE LET lo == BuildChain(<<>>, u, 1, ic, e2)
                up == BuildChain(<<>>, Reverse(u), 1, ic, e2)
                h == Stitch(lo, up)
                out == Outcome(u, h, ic, e2)
            IN [uniq |-> u, lower |-> lo, upper |-> up, hull |-> h,
                branch |-> out.branch, result |-> out.result]

\* ---- inputs ----
\* A caller's list: the points of S in descending order, the first d of them
\* repeated at the end, so inputs are unsorted and may hold duplicates.
InputOf(S, d) ==
    LET desc == Reverse(Sorted(S))
    IN desc \o SubSeq(desc, 1, d)

InitFor(maxPoints) ==
    /\ \E S \in SUBSET Grid : \E d \in BOOLEAN :
          /\ Cardinality(S) <= maxPoints
          /\ d => S # {}
          /\ points = InputOf(S, IF d THEN 1 ELSE 0)
    /\ include_collinear \in BOOLEAN
    /\ eps2 \in EpsValues
    /\ pc = "start"
    /\ uniq = <<>>
    /\ i = 0
    /\ lower = <<>>
    /\ upper = <<>>
    /\ popped = <<>>
    /\ hull = <<>>
    /\ result = <<>>
    /\ branch = "none"

Init == InitFor(MaxPoints)

\* ---- Spec: a call is one step ----
Call ==
    /\ pc = "start"
    /\ \E r \in {ConvexHull(points, include_collinear, eps2)} :
          /\ uniq' = r.uniq
          /\ lower' = r.lower
          /\ upper' = r.upper
          /\ hull' = r.hull
          /\ result' = r.result
          /\ branch' = r.branch
    /\ pc' = "done"
    /\ UNCHANGED <<points, include_collinear, eps2, i, popped>>

Next == Call

Spec == Init /\ [][Next]_vars

\* ---- ScanSpec: the same call, one statement per step ----
ScanInit == InitFor(MaxScanPoints)

\* lines 104-111: normalize, return on n <= 1, else start the lower scan
Normalize ==
    /\ pc = "start"
    /\ \E u \in {Uniq(points)} :
          /\ uniq' = u
          /\ IF Len(u) <= 1
             THEN /\ result' = u
                  /\ branch' = "trivial"
                  /\ pc' = "done"
             ELSE /\ pc' = "lower"
                  /\ UNCHANGED <<result, branch>>
    /\ UNCHANGED <<points, include_collinear, eps2, i, lower, upper, popped, hull>>

\* lines 118-122, 126-127: the while loop pops the top of lower
LowerPop ==
    /\ pc = "lower"
    /\ i < Len(uniq)
    /\ ShouldPop(lower, uniq[i + 1], include_collinear, eps2)
    /\ lower' = Front(lower)
    /\ popped' = Append(popped, Last(lower))
    /\ UNCHANGED <<points, include_collinear, eps2, pc, uniq, i, upper, hull,
                   result, branch>>

\* line 130: the while loop is over, p is appended and the for loop advances
LowerAppend ==
    /\ pc = "lower"
    /\ i < Len(uniq)
    /\ ~ShouldPop(lower, uniq[i + 1], include_collinear, eps2)
    /\ lower' = Append(lower, uniq[i + 1])
    /\ i' = i + 1
    /\ UNCHANGED <<points, include_collinear, eps2, pc, uniq, upper, popped,
                   hull, result, branch>>

\* line 133: the lower scan is exhausted, the upper scan starts
StartUpper ==
    /\ pc = "lower"
    /\ i = Len(uniq)
    /\ pc' = "upper"
    /\ i' = 0
    /\ popped' = <<>>
    /\ UNCHANGED <<points, include_collinear, eps2, uniq, lower, upper, hull,
                   result, branch>>

\* lines 135-139, 143-144
UpperPop ==
    /\ pc = "upper"
    /\ i < Len(uniq)
    /\ ShouldPop(upper, Reverse(uniq)[i + 1], include_collinear, eps2)
    /\ upper' = Front(upper)
    /\ popped' = Append(popped, Last(upper))
    /\ UNCHANGED <<points, include_collinear, eps2, pc, uniq, i, lower, hull,
                   result, branch>>

\* line 147
UpperAppend ==
    /\ pc = "upper"
    /\ i < Len(uniq)
    /\ ~ShouldPop(upper, Reverse(uniq)[i + 1], include_collinear, eps2)
    /\ upper' = Append(upper, Reverse(uniq)[i + 1])
    /\ i' = i + 1
    /\ UNCHANGED <<points, include_collinear, eps2, pc, uniq, lower, popped,
                   hull, result, branch>>

\* lines 152-167: stitch and return
Return ==
    /\ pc = "upper"
    /\ i = Len(uniq)
    /\ \E h \in {Stitch(lower, upper)} :
          /\ hull' = h
          /\ \E out \in {Outcome(uniq, h, include_collinear, eps2)} :
                /\ result' = out.result
                /\ branch' = out.branch
    /\ pc' = "done"
    /\ UNCHANGED <<points, include_collinear, eps2, uniq, i, lower, upper, popped>>

ScanNext ==
    \/ Normalize
    \/ LowerPop
    \/ LowerAppend
    \/ StartUpper
    \/ UpperPop
    \/ UpperAppend
    \/ Return

ScanSpec == ScanInit /\ [][ScanNext]_vars

\* ---- vocabulary of the properties ----
Input == Range(points)
Done == pc = "done"
DefaultEps == eps2 = DefaultEps2

\* geometry stated on the input set, without the chains
NonCollinear(S) == \E a, b, c \in S : Cross(a, b, c) # 0
AllCollinear(S) == ~NonCollinear(S)
IsMin(p, S) == p \in S /\ \A q \in S : ~Less(q, p)
IsMax(p, S) == p \in S /\ \A q \in S : ~Less(p, q)

\* p is on the boundary of the convex hull of S: it is on a line through two
\* points of S that has no point of S strictly on its right
OnBoundary(p, S) ==
    \E a, b \in S :
        /\ a # b
        /\ \A q \in S : Cross(a, b, q) >= 0
        /\ Cross(a, b, p) = 0

\* p lies strictly between two other points of S
StrictlyBetween(p, S) ==
    \E a, b \in S :
        /\ a # p /\ b # p
        /\ Cross(a, b, p) = 0
        /\ (a[1] - p[1]) * (b[1] - p[1]) + (a[2] - p[2]) * (b[2] - p[2]) < 0

NoRepeats(s) == Cardinality(Range(s)) = Len(s)
Cyclic(s, k) == s[((k - 1) % Len(s)) + 1]
IsRotation(s, t) ==
    /\ Len(s) = Len(t)
    /\ Len(s) > 0 => \E sh \in 0 .. Len(s) - 1 :
                        \A k \in 1 .. Len(s) : s[k] = Cyclic(t, k + sh)

\* ---- C1 ----
\* C1: corners-only mode, default eps, an input with three non-collinear
\* points: the output has at least 3 points and no input point is strictly
\* to the right of any of its edges.
C1_Containment ==
    (Done /\ ~include_collinear /\ DefaultEps /\ NonCollinear(Input)) =>
        /\ Len(result) >= 3
        /\ \A k \in 1 .. Len(result) : \A p \in Input :
              Cross(Cyclic(result, k), Cyclic(result, k + 1), p) >= 0

\* a corners-only call that dropped an interior point and a point of an edge
C1_Witness ==
    /\ Done /\ ~include_collinear /\ DefaultEps /\ NonCollinear(Input)
    /\ Len(result) >= 3
    /\ \E p \in Input : ~OnBoundary(p, Input)
    /\ \E p \in Input : OnBoundary(p, Input) /\ p \notin Range(result)

\* ---- C2 ----
\* C2: edge-point mode, default eps, an input with three non-collinear
\* points: the output holds exactly the input points on the boundary of the
\* hull of the input, each once.
C2_ExactlyBoundary ==
    (Done /\ include_collinear /\ DefaultEps /\ NonCollinear(Input)) =>
        /\ Range(result) = {p \in Input : OnBoundary(p, Input)}
        /\ NoRepeats(result)

\* an edge-point call whose input has an interior point and a point strictly
\* inside an edge
C2_Witness ==
    /\ Done /\ include_collinear /\ DefaultEps /\ NonCollinear(Input)
    /\ \E p \in Input : ~OnBoundary(p, Input) /\ p \notin Range(result)
    /\ \E p \in Range(result) : StrictlyBetween(p, Input)

\* ---- C3 ----
\* C3: default eps, both modes, an input with three non-collinear points:
\* the shoelace sum of the output is strictly positive (counterclockwise).
C3_Counterclockwise ==
    (Done /\ DefaultEps /\ NonCollinear(Input)) => PolygonArea2(result) > 0

\* an edge-point call that returned the stitched hull with a point of an edge
C3_Witness ==
    /\ Done /\ DefaultEps /\ NonCollinear(Input) /\ include_collinear
    /\ branch = "hull"
    /\ Len(result) >= 5
    /\ \E p \in Range(result) : StrictlyBetween(p, Input)

\* ---- C4 ----
\* C4: in both modes and for every eps >= 0 the output holds no point twice.
C4_NoDuplicates == Done => NoRepeats(result)

\* ---- C5 ----
\* C5: corners-only mode, every eps >= 0: when the output has at least 3
\* points, every cyclically consecutive triple of it turns by more than eps.
C5_StrictlyConvex ==
    (Done /\ ~include_collinear /\ Len(result) >= 3) =>
        \A k \in 1 .. Len(result) :
            2 * Cross(Cyclic(result, k), Cyclic(result, k + 1), Cyclic(result, k + 2))
                > eps2

\* ---- C6 ----
\* C6: default eps, at least 2 distinct points, all collinear: corners-only
\* mode returns <<smallest, largest>> through the ordinary return of the
\* stitched hull; edge-point mode returns every distinct point once, ascending.
C6_AllCollinear ==
    (Done /\ DefaultEps /\ Cardinality(Input) >= 2 /\ AllCollinear(Input)) =>
        IF include_collinear
        THEN /\ Range(result) = Input
             /\ \A k \in 1 .. Len(result) - 1 : Less(result[k], result[k + 1])
        ELSE /\ Len(result) = 2
             /\ IsMin(result[1], Input)
             /\ IsMax(result[2], Input)
             /\ branch = "hull"

\* an edge-point call on four or more collinear points, one given twice
C6_Witness ==
    /\ Done /\ DefaultEps /\ AllCollinear(Input) /\ include_collinear
    /\ Cardinality(Input) >= 3
    /\ Len(points) > Cardinality(Input)
    /\ branch = "collinear"

\* ---- C7 ----
\* C7: corners-only mode, default eps, any input: convex_hull applied to its
\* own output returns that output, up to rotation.
C7_Idempotent ==
    (Done /\ ~include_collinear /\ DefaultEps) =>
        IsRotation(ConvexHull(result, FALSE, eps2).result, result)

\* a corners-only call that dropped points and kept at least 4 corners
C7_Witness ==
    /\ Done /\ ~include_collinear /\ DefaultEps
    /\ Len(result) >= 4
    /\ Len(result) < Cardinality(Input)

\* ---- C8 ----
\* C8: edge-point mode, every eps >= 0, at least 2 distinct points:
\* when the area test returns the sorted points, the input is collinear.
C8_CorrectionOnlyOnCollinear ==
    (Done /\ include_collinear /\ branch = "collinear" /\ Cardinality(Input) >= 2) =>
        AllCollinear(Input)

\* ---- C9 ----
\* C9: at least 2 distinct points, both modes, every eps >= 0: after the
\* scans each chain has at least 2 points, lower runs from the smallest point
\* to the largest and upper from the largest to the smallest; the stitched
\* hull starts with the smallest point, is not empty, and the empty-hull
\* fallback is not taken.
C9_ChainEndpoints ==
    (Done /\ Cardinality(Input) >= 2) =>
        /\ Len(lower) >= 2
        /\ IsMin(lower[1], Input)
        /\ IsMax(Last(lower), Input)
        /\ Len(upper) >= 2
        /\ IsMax(upper[1], Input)
        /\ IsMin(Last(upper), Input)
        /\ Last(lower) = upper[1]
        /\ Last(upper) = lower[1]
        /\ Len(hull) >= 1
        /\ hull[1] = lower[1]
        /\ branch # "fallback"

\* a call with a tolerance above the default whose scans popped points
C9_Witness ==
    /\ Done /\ Cardinality(Input) >= 4
    /\ eps2 > DefaultEps2
    /\ Len(lower) < Cardinality(Input)
    /\ Len(upper) < Cardinality(Input)
    /\ branch = "hull"

\* ---- C10 ----
\* what is left to do: every step of a call makes it smaller
Variant ==
    LET n == Len(uniq)
    IN CASE pc = "start" -> 4 * Len(points) + 3
         [] pc = "lower" -> 2 * (n - i) + Len(lower) + 2 * n + 2
         [] pc = "upper" -> 2 * (n - i) + Len(upper) + 1
         [] OTHER -> 0

\* the bookkeeping of the running scan
ScanBounds ==
    LET n == Len(uniq)
        chain == IF pc = "lower" THEN lower ELSE upper
        order == IF pc = "lower" THEN uniq ELSE Reverse(uniq)
    IN /\ pc \in {"lower", "upper"} =>
            /\ i \in 0 .. n
            /\ Len(chain) + Len(popped) = i
            /\ Range(chain) \cup Range(popped) = {order[k] : k \in 1 .. i}
            /\ NoRepeats(popped)
            /\ Len(popped) <= n - 1
            /\ i >= 1 => Len(chain) \in 1 .. n
       /\ ~Done => ENABLED ScanNext

\* C10: every scan terminates (each step lowers Variant, and a step is
\* possible until the call has returned), the points appended so far are the
\* first i of the scan order, each once, each on the chain or popped once; at
\* most n-1 pops per scan; the chain holds 1..n points after the first append.
C10_ScanTerminatesWithinBounds ==
    /\ []ScanBounds
    /\ [][Variant' < Variant]_vars

\* the upper scan finished after popping two points
C10_Witness ==
    /\ pc = "upper"
    /\ i = Len(uniq)
    /\ Len(popped) >= 2
    /\ Len(upper) + Len(popped) = Len(uniq)

====
